---- MODULE Spec2Model ----
(***************************************************************************)
(* The fixed-timestep simulation of rust-pong (src/src/main.rs) as a state *)
(* machine: the five chained FixedUpdate systems                           *)
(*   apply_velocity -> move_players -> check_for_collisions ->             *)
(*   play_collision_sound -> update_velocity                               *)
(* followed by the flush of the deferred Commands at the end of the        *)
(* schedule run.                                                           *)
(*                                                                         *)
(* Numbers.  i32 values of the source are integers.  f32 values are        *)
(* fixed-point integers counting tenths (0.1 is the finest grain the       *)
(* default configuration uses: padding_for_bounds, probability); `as f32`  *)
(* and `as i32` are the conversions as_f32 and as_i32, and every product   *)
(* or quotient is truncated toward zero.                                   *)
(*                                                                         *)
(* Velocity(Vec2) is kept in polar form [dir, mag]: dir is an integer      *)
(* direction vector, mag the length of the velocity (an f32).  The         *)
(* components the code reads are VelX and VelY; negating a component       *)
(* negates that component of dir; normalize() * s keeps dir and sets mag   *)
(* to s (and yields NaN for the zero vector).                              *)
(***************************************************************************)
EXTENDS Integers, Sequences, FiniteSets, TLC

VARIABLES
    parameters,        \* Res<Parameters>: the configuration, fixed after startup
    balls,             \* the Ball entities in spawn order: [pos, vel]
    paddles,           \* the paddle entities' Transform.translation, one per player
    bricks,            \* the Brick entities still in the world (ids of BrickLayout)
    scores,            \* Scoreboard.scores
    speed,             \* Speed(f32)
    collision_events,  \* unread CollisionEvents of the EventReader
    commands,          \* Commands queued by the systems, applied at the flush
    audio,             \* number of AudioBundle entities spawned so far
    pc,                \* the system of the chain that runs next
    ticks,             \* number of completed FixedUpdate runs
    log,               \* history: the overlaps processed by the last run of check_for_collisions
    keyboard_input,    \* Res<Input<KeyCode>>: the keys held down, where a specification fixes
                       \* them; no system of the chain writes it
    state,             \* State<AppState>
    next_state,        \* NextState<AppState>: "None" or the state asked for
    menu_nodes,        \* the root UI nodes setup_menu spawned that are in the world
    menu_data,         \* the MenuData resource: the set of its button_entity, empty before the insert
    interaction        \* the Interaction values of the buttons it changed for in this frame

\* What the menu module owns; the FixedUpdate systems have no access to it.
menu_vars == <<state, next_state, menu_nodes, menu_data, interaction>>

vars == <<parameters, balls, paddles, bricks, scores, speed, collision_events,
          commands, audio, pc, ticks, log, keyboard_input, menu_vars>>

----------------------------------------------------------------------------
(* Arithmetic *)

Abs(a) == IF a < 0 THEN -a ELSE a

Sign(a) == IF a < 0 THEN -1 ELSE IF a > 0 THEN 1 ELSE 0

\* Rust's integer division and f32 -> i32 casts truncate toward zero.
TruncDiv(a, b) == Sign(a) * Sign(b) * (Abs(a) \div Abs(b))

Min(a, b) == IF a < b THEN a ELSE b

Max(a, b) == IF a > b THEN a ELSE b

\* self.max(min).min(max), per component
ClampScalar(v, lo, hi) == Min(Max(v, lo), hi)

clamp(v, lo, hi) == <<ClampScalar(v[1], lo[1], hi[1]), ClampScalar(v[2], lo[2], hi[2])>>

RECURSIVE SqrtIter(_, _)
SqrtIter(n, x) ==
    LET y == (x + n \div x) \div 2
    IN  IF y >= x THEN x ELSE SqrtIter(n, y)

\* floor of the square root
Sqrt(n) == IF n = 0 THEN 0 ELSE SqrtIter(n, n)

\* i as f32
as_f32(i) == i * 10

\* f as i32
as_i32(f) == TruncDiv(f, 10)

\* the f32 literal whole.tenth
Lit(whole, tenth) == whole * 10 + tenth

\* length of an integer vector, in thousandths
Length1000(d) == Sqrt(1000000 * (d[1] * d[1] + d[2] * d[2]))

\* component c of  d.normalize() * m
UnitTimes(d, c, m) == TruncDiv(d[c] * m * 1000, Length1000(d))

\* Time::delta_seconds() of the fixed timestep: 1/64 s
TimesDelta(f) == TruncDiv(f, 64)

----------------------------------------------------------------------------
(* The configuration: parameters_from_toml *)

up_direction == <<0, 1>>

down_direction == <<0, -1>>

\* A Player of the configuration; its controls are the two Move controls.
Player(wall, up_key, down_key, paddle) ==
    [wall_that_gives_points |-> wall,
     controls |-> <<[key |-> up_key, effect |-> [move |-> up_direction]],
                    [key |-> down_key, effect |-> [move |-> down_direction]]>>,
     paddle |-> paddle]

\* The configuration parameters_from_toml builds and writes.
DefaultParameters ==
    LET paddle == [width |-> 20, height |-> 120, speed |-> Lit(500, 0)]
    IN  [misc |-> [wall_thickness |-> 10,
                   gap_between_paddle_and_side_wall |-> 100,
                   gap_between_paddle_and_horizontal_wall |-> 10,
                   minimum_gap_between_paddle_and_goal_bricks |-> 20,
                   gap_between_bricks |-> 1,
                   minimum_gap_between_bricks_and_horizontal_walls |-> 20,
                   minimum_gap_between_bricks_and_vertical_walls |-> 40],
         levels |-> <<[x_left_wall |-> -600, x_right_wall |-> 600,
                       y_down_wall |-> -300, y_up_wall |-> 300]>>,
         paddle |-> paddle,
         players |-> <<Player("Right", "Q", "A", paddle), Player("Left", "O", "L", paddle)>>,
         ball |-> [starting_position |-> <<Lit(0, 0), -Lit(50, 0)>>,
                   starting_direction |-> <<Lit(0, 5), -Lit(0, 5)>>,
                   speed |-> Lit(400, 0),
                   max_speed |-> Lit(2000, 0),
                   size |-> <<Lit(30, 0), Lit(30, 0)>>,
                   probability_to_duplicate |-> Lit(0, 1),
                   padding_for_bounds |-> Lit(0, 1)],
         brick |-> [width |-> 5, height |-> 10]]

\* A parameters.toml of the same shape for a small arena (48 x 24, two bricks
\* on each side), with the players' scoring walls and the duplication
\* probability left open.
SmallParameters(wall_0, wall_1, probability) ==
    LET paddle == [width |-> 2, height |-> 16, speed |-> Lit(128, 0)]
    IN  [misc |-> [wall_thickness |-> 2,
                   gap_between_paddle_and_side_wall |-> 8,
                   gap_between_paddle_and_horizontal_wall |-> 1,
                   minimum_gap_between_paddle_and_goal_bricks |-> 2,
                   gap_between_bricks |-> 1,
                   minimum_gap_between_bricks_and_horizontal_walls |-> 6,
                   minimum_gap_between_bricks_and_vertical_walls |-> 2],
         levels |-> <<[x_left_wall |-> -24, x_right_wall |-> 24,
                       y_down_wall |-> -12, y_up_wall |-> 12]>>,
         paddle |-> paddle,
         players |-> <<Player(wall_0, "Q", "A", paddle), Player(wall_1, "O", "L", paddle)>>,
         ball |-> [starting_position |-> <<-Lit(4, 0), Lit(5, 0)>>,
                   starting_direction |-> <<Lit(0, 5), -Lit(0, 5)>>,
                   speed |-> Lit(320, 0),
                   max_speed |-> Lit(325, 0),
                   size |-> <<Lit(6, 0), Lit(6, 0)>>,
                   probability_to_duplicate |-> probability,
                   padding_for_bounds |-> Lit(0, 1)],
         brick |-> [width |-> 4, height |-> 4]]

\* The configurations the simulation is explored under.
Configurations ==
    {SmallParameters(w[1], w[2], pr) :
        w \in {<<"Right", "Left">>, <<"Left", "Left">>},
        pr \in {Lit(0, 0), Lit(0, 1), Lit(1, 0)}}

\* `parameters.wall` of main.rs and of the bound methods: the level's wall
\* coordinates and the wall thickness.
wall(p) ==
    [x_left_wall |-> p.levels[1].x_left_wall,
     x_right_wall |-> p.levels[1].x_right_wall,
     y_down_wall |-> p.levels[1].y_down_wall,
     y_up_wall |-> p.levels[1].y_up_wall,
     thickness |-> p.misc.wall_thickness]

(* impl Paddle *)

Paddle_size(self) == <<as_f32(self.width), as_f32(self.height)>>

Paddle_left_bound(self, p) ==
    wall(p).x_left_wall + TruncDiv(wall(p).thickness, 2)
        + p.misc.gap_between_paddle_and_side_wall + TruncDiv(self.width, 2)

Paddle_right_bound(self, p) ==
    wall(p).x_right_wall - TruncDiv(wall(p).thickness, 2)
        - p.misc.gap_between_paddle_and_side_wall - TruncDiv(self.width, 2)

Paddle_down_bound(self, p) ==
    wall(p).y_down_wall + TruncDiv(wall(p).thickness, 2)
        + p.misc.gap_between_paddle_and_horizontal_wall + TruncDiv(self.height, 2)

Paddle_up_bound(self, p) ==
    wall(p).y_up_wall - TruncDiv(wall(p).thickness, 2)
        - p.misc.gap_between_paddle_and_horizontal_wall - TruncDiv(self.height, 2)

Paddle_neg_bounds(self, p) ==
    <<as_f32(Paddle_left_bound(self, p)), as_f32(Paddle_down_bound(self, p))>>

Paddle_pos_bounds(self, p) ==
    <<as_f32(Paddle_right_bound(self, p)), as_f32(Paddle_up_bound(self, p))>>

(* impl ParametersBall *)

\* A Vec2 whose two components are NaN: what glam's normalize() returns for a
\* vector of length zero (x * (1 / 0) with x = 0), and what any product with
\* it is. No direction is left, which the zero dir records.
NaN == [dir |-> <<0, 0>>, mag |-> 0]

is_nan(v) == v.dir = <<0, 0>>

\* The zero vector: a direction times the magnitude zero.
is_zero(v) == ~is_nan(v) /\ v.mag = 0

\* v.normalize() * s of glam: no test of the length before the division.
normalize_times(v, s) ==
    IF is_nan(v) \/ is_zero(v) THEN NaN ELSE [v EXCEPT !.mag = s]

\* starting_direction.normalize() * speed
starting_velocity(self) ==
    normalize_times([dir |-> self.starting_direction, mag |-> 1], self.speed)

Ball_left_bound(self, p) ==
    wall(p).x_left_wall + TruncDiv(wall(p).thickness, 2) + TruncDiv(as_i32(self.size[1]), 2)

Ball_right_bound(self, p) ==
    wall(p).x_right_wall - TruncDiv(wall(p).thickness, 2) - TruncDiv(as_i32(self.size[1]), 2)

Ball_down_bound(self, p) ==
    wall(p).y_down_wall + TruncDiv(wall(p).thickness, 2) + TruncDiv(as_i32(self.size[2]), 2)

Ball_up_bound(self, p) ==
    wall(p).y_up_wall - TruncDiv(wall(p).thickness, 2) - TruncDiv(as_i32(self.size[2]), 2)

Ball_neg_bounds(self, p) ==
    <<as_f32(Ball_left_bound(self, p)) - self.padding_for_bounds,
      as_f32(Ball_down_bound(self, p)) - self.padding_for_bounds>>

Ball_pos_bounds(self, p) ==
    <<as_f32(Ball_right_bound(self, p)) + self.padding_for_bounds,
      as_f32(Ball_up_bound(self, p)) + self.padding_for_bounds>>

(* impl ParametersBrick *)

Brick_size(self) == <<as_f32(self.width), as_f32(self.height)>>

----------------------------------------------------------------------------
(* The world setup builds *)

\* Number of FixedUpdate runs explored.
MaxTicks == 16

\* The keys bound to a control of some player.
Keys == {"Q", "A", "O", "L"}

\* Values rand::random::<f32>() is drawn from (it lies in [0, 1)).
RandomDraws == {Lit(0, 0), Lit(0, 9)}

\* Transform.translation of every paddle: Vec3::new(paddle_x_1 as f32, 0.0, 0.0)
paddle_start(p) ==
    LET paddle_x_1 == Paddle_left_bound(p.paddle, p) + TruncDiv(p.paddle.width, 2)
    IN  <<as_f32(paddle_x_1), as_f32(0)>>

\* The translations of the bricks in spawn order: the grid on the left, then
\* the grid on the right, each row by row.
BrickLayout(p) ==
    LET w == wall(p)
        y_border_top_wall == w.y_up_wall - TruncDiv(w.thickness, 2)
        y_border_down_wall == w.y_down_wall + TruncDiv(w.thickness, 2)
        x_border_left_wall == w.x_left_wall + TruncDiv(w.thickness, 2)
        x_border_left_paddle == Paddle_left_bound(p.paddle, p)
        x_border_right_wall == w.x_right_wall + TruncDiv(w.thickness, 2)
        x_border_right_paddle == Paddle_right_bound(p.paddle, p)
        gap_between_bricks == p.misc.gap_between_bricks
        brick_width == p.brick.width
        total_width_of_bricks ==
            (x_border_left_paddle - x_border_left_wall)
                - p.misc.minimum_gap_between_bricks_and_vertical_walls
                - p.misc.minimum_gap_between_paddle_and_goal_bricks
        brick_height == p.brick.height
        total_height_of_bricks ==
            (y_border_top_wall - y_border_down_wall)
                - 2 * p.misc.minimum_gap_between_bricks_and_horizontal_walls
        n_columns ==
            TruncDiv(total_width_of_bricks + gap_between_bricks, brick_width + gap_between_bricks)
        n_rows ==
            TruncDiv(total_height_of_bricks + gap_between_bricks, brick_height + gap_between_bricks)
        n_vertical_gaps == n_columns - 1
        n_horizontal_gaps == n_rows - 1
        \* (n as f32 / 2. * width as f32) as i32
        HalfOf(n, width) == TruncDiv(n * width, 2)
        x_left_center_of_bricks == TruncDiv(x_border_left_wall + x_border_left_paddle, 2)
        left_left_edge_of_bricks ==
            x_left_center_of_bricks - HalfOf(n_columns, brick_width)
                - HalfOf(n_vertical_gaps, gap_between_bricks)
        x_right_center_of_bricks == TruncDiv(x_border_right_wall + x_border_right_paddle, 2)
        right_left_edge_of_bricks ==
            x_right_center_of_bricks - HalfOf(n_columns, brick_width)
                - HalfOf(n_vertical_gaps, gap_between_bricks)
        y_left_center_of_bricks == TruncDiv(y_border_top_wall + y_border_down_wall, 2)
        bottom_edge_of_bricks ==
            y_left_center_of_bricks - HalfOf(n_rows, brick_height)
                - HalfOf(n_horizontal_gaps, gap_between_bricks)
        left_offset_x == left_left_edge_of_bricks + TruncDiv(brick_width, 2)
        offset_y == bottom_edge_of_bricks + TruncDiv(brick_height, 2)
        right_offset_x == right_left_edge_of_bricks + TruncDiv(brick_width, 2)
        count == IF n_rows > 0 /\ n_columns > 0 THEN n_rows * n_columns ELSE 0
        Grid(offset_x) ==
            [k \in 1..count |->
                LET row == (k - 1) \div n_columns
                    column == (k - 1) % n_columns
                IN  <<as_f32(offset_x + column * (brick_width + gap_between_bricks)),
                      as_f32(offset_y + row * (brick_height + gap_between_bricks))>>]
    IN  Grid(left_offset_x) \o Grid(right_offset_x)

\* The walls setup spawns, in spawn order.
WallOrder == <<"Left", "Right", "Down", "Up">>

\* WallBundle::new(location, &parameters): the wall's translation and scale.
\* A side wall is centred on its x coordinate and spans the arena's height
\* plus the thickness; a horizontal wall likewise.
WallBundle_new(location, p) ==
    LET w == wall(p)
        arena_height == w.y_up_wall - w.y_down_wall
        arena_width == w.x_right_wall - w.x_left_wall
        position ==
            CASE location = "Left" -> <<as_f32(w.x_left_wall), as_f32(0)>>
              [] location = "Right" -> <<as_f32(w.x_right_wall), as_f32(0)>>
              [] location = "Down" -> <<as_f32(0), as_f32(w.y_down_wall)>>
              [] location = "Up" -> <<as_f32(0), as_f32(w.y_up_wall)>>
        size ==
            IF location \in {"Left", "Right"}
            THEN <<as_f32(w.thickness), as_f32(arena_height + w.thickness)>>
            ELSE <<as_f32(arena_width + w.thickness), as_f32(w.thickness)>>
    IN  [translation |-> position, scale |-> size, wall |-> location]

NumPlayers(p) == Len(p.players)

\* collider_query: the entities With<Collider> in iteration order (paddles,
\* walls, bricks: the order setup spawned them in), each with its Entity,
\* Transform, Option<&Brick> and Option<&Wall>.  Entities are numbered in
\* this order.
Colliders ==
    LET np == NumPlayers(parameters)
        layout == BrickLayout(parameters)
    IN  [i \in 1..np |->
            [entity |-> i, translation |-> paddles[i],
             scale |-> Paddle_size(parameters.paddle), brick |-> FALSE, wall |-> "None"]]
        \o
        [k \in 1..Len(WallOrder) |->
            LET b == WallBundle_new(WallOrder[k], parameters)
            IN  [entity |-> np + k, translation |-> b.translation,
                 scale |-> b.scale, brick |-> FALSE, wall |-> b.wall]]
        \o
        [k \in 1..Len(bricks) |->
            [entity |-> np + Len(WallOrder) + bricks[k], translation |-> layout[bricks[k]],
             scale |-> Brick_size(parameters.brick), brick |-> TRUE, wall |-> "None"]]

\* The world setup builds, with the paddles at the given translations and
\* the given keys held down.
SetupWith(p, paddle_translations, keys) ==
    /\ parameters = p
    /\ balls = <<[translation |-> p.ball.starting_position,
                  velocity |-> starting_velocity(p.ball)]>>
    /\ paddles = paddle_translations
    /\ bricks = [k \in 1..Len(BrickLayout(p)) |-> k]
    /\ scores = [i \in 1..NumPlayers(p) |-> 0]
    /\ speed = p.ball.speed
    /\ collision_events = 0
    /\ commands = <<>>
    /\ audio = 0
    /\ ticks = 0
    /\ log = <<>>
    /\ keyboard_input = keys
    /\ state = "Menu"
    /\ next_state = "None"
    /\ menu_nodes = {}
    /\ menu_data = {}
    /\ interaction = {}

\* The state after the Startup schedule (setup and the flush of its commands).
Setup(p) == SetupWith(p, [i \in 1..NumPlayers(p) |-> paddle_start(p)], {})

Init ==
    /\ \E p \in Configurations : Setup(p)
    /\ pc = "apply_velocity"

----------------------------------------------------------------------------
(* Velocity *)

\* velocity.x and velocity.y
VelX(v) == UnitTimes(v.dir, 1, v.mag)

VelY(v) == UnitTimes(v.dir, 2, v.mag)

\* velocity.x = -velocity.x
NegateX(v) == [v EXCEPT !.dir = <<-v.dir[1], v.dir[2]>>]

\* velocity.y = -velocity.y
NegateY(v) == [v EXCEPT !.dir = <<v.dir[1], -v.dir[2]>>]

----------------------------------------------------------------------------
(* apply_velocity *)

\* The integration without the clamp of the balls.
apply_velocity_to_unclamped(b) ==
    [b EXCEPT !.translation = <<b.translation[1] + TimesDelta(VelX(b.velocity)),
                                b.translation[2] + TimesDelta(VelY(b.velocity))>>]

\* One entity of the query: translation += velocity * delta_seconds, and
\* for a Ball the clamp into the ball bounds.
apply_velocity_to(b) ==
    LET moved == <<b.translation[1] + TimesDelta(VelX(b.velocity)),
                   b.translation[2] + TimesDelta(VelY(b.velocity))>>
    IN  [b EXCEPT !.translation =
            clamp(moved, Ball_neg_bounds(parameters.ball, parameters),
                         Ball_pos_bounds(parameters.ball, parameters))]

\* The first system of the chain; only balls carry a Velocity.
apply_velocity ==
    /\ pc = "apply_velocity"
    /\ ticks < MaxTicks
    /\ balls' = [i \in DOMAIN balls |-> apply_velocity_to(balls[i])]
    /\ pc' = "move_players"
    /\ UNCHANGED <<parameters, paddles, bricks, scores, speed, collision_events,
                   commands, audio, ticks, log, keyboard_input, menu_vars>>

----------------------------------------------------------------------------
(* move_players *)

\* Option<Vec3>
None == [some |-> FALSE, value |-> <<0, 0>>]

Some(v) == [some |-> TRUE, value |-> v]

RECURSIVE SumDirections(_, _, _)
\* The fold over player.controls: delta stays None until the first pressed
\* Move control, then it is the sum of the pressed directions.
SumDirections(controls, pressed, delta) ==
    IF controls = <<>> THEN delta
    ELSE LET control == Head(controls)
             direction == control.effect.move
             next == IF "move" \in DOMAIN control.effect /\ control.key \in pressed
                     THEN IF delta.some
                          THEN Some(<<delta.value[1] + direction[1],
                                      delta.value[2] + direction[2]>>)
                          ELSE Some(direction)
                     ELSE delta
         IN  SumDirections(Tail(controls), pressed, next)

\* component c of  delta.normalize_or_zero() * speed * delta_seconds
PaddleStep(delta, c, paddle_speed) ==
    IF delta = <<0, 0>> THEN 0 ELSE TimesDelta(UnitTimes(delta, c, paddle_speed))

\* move_player with the clamp of the new position left out.
move_player_unclamped(translation, player, pressed) ==
    LET delta == SumDirections(player.controls, pressed, None)
    IN  IF ~delta.some THEN translation
        ELSE <<translation[1] + PaddleStep(delta.value, 1, player.paddle.speed),
               translation[2] + PaddleStep(delta.value, 2, player.paddle.speed)>>

\* One paddle of the query (each player's paddle entity, moved with the
\* Paddle of its Player) under the keys held down.
move_player(translation, player, pressed) ==
    LET delta == SumDirections(player.controls, pressed, None)
    IN  IF ~delta.some THEN translation
        ELSE LET new_paddle_position ==
                     <<translation[1] + PaddleStep(delta.value, 1, player.paddle.speed),
                       translation[2] + PaddleStep(delta.value, 2, player.paddle.speed)>>
             IN  clamp(new_paddle_position,
                       Paddle_neg_bounds(player.paddle, parameters),
                       Paddle_pos_bounds(player.paddle, parameters))

\* move_players ordered before play_collision_sound only: the collision
\* system is not between them.
move_players_then_sound(pressed, matched) ==
    /\ pc = "move_players"
    /\ paddles' = [i \in DOMAIN paddles |->
                      IF i \in matched
                      THEN move_player(paddles[i], parameters.players[i], pressed)
                      ELSE paddles[i]]
    /\ pc' = "play_collision_sound"
    /\ UNCHANGED <<parameters, balls, bricks, scores, speed, collision_events,
                   commands, audio, ticks, log, keyboard_input, menu_vars>>

\* The entities the query (&mut Transform, &Player, &Paddle) can match.  setup
\* spawns each paddle with a Player (which holds its Paddle as a field) and
\* attaches no Paddle component of its own: read to the letter the query
\* matches no entity, read as meant it matches every paddle.
QueryMatches == {{}, DOMAIN paddles}

move_players(pressed, matched) ==
    /\ pc = "move_players"
    /\ paddles' = [i \in DOMAIN paddles |->
                      IF i \in matched
                      THEN move_player(paddles[i], parameters.players[i], pressed)
                      ELSE paddles[i]]
    /\ pc' = "check_for_collisions"
    /\ UNCHANGED <<parameters, balls, bricks, scores, speed, collision_events,
                   commands, audio, ticks, log, keyboard_input, menu_vars>>

----------------------------------------------------------------------------
(* The collision test: bevy::sprite::collide_aabb::collide *)

\* A classification by the side of a that touches b (the mirror image of
\* collide on both axes).
collide_side_of_a(a_pos, a_size, b_pos, b_size) ==
    LET a_min == <<a_pos[1] - TruncDiv(a_size[1], 2), a_pos[2] - TruncDiv(a_size[2], 2)>>
        a_max == <<a_pos[1] + TruncDiv(a_size[1], 2), a_pos[2] + TruncDiv(a_size[2], 2)>>
        b_min == <<b_pos[1] - TruncDiv(b_size[1], 2), b_pos[2] - TruncDiv(b_size[2], 2)>>
        b_max == <<b_pos[1] + TruncDiv(b_size[1], 2), b_pos[2] + TruncDiv(b_size[2], 2)>>
        x == IF a_min[1] < b_min[1] /\ a_max[1] > b_min[1]
             THEN [side |-> "Right", depth |-> b_min[1] - a_max[1]]
             ELSE IF a_min[1] < b_max[1] /\ a_max[1] > b_max[1]
             THEN [side |-> "Left", depth |-> a_min[1] - b_max[1]]
             ELSE [side |-> "Inside", depth |-> 0]
        y == IF a_min[2] < b_min[2] /\ a_max[2] > b_min[2]
             THEN [side |-> "Top", depth |-> b_min[2] - a_max[2]]
             ELSE IF a_min[2] < b_max[2] /\ a_max[2] > b_max[2]
             THEN [side |-> "Bottom", depth |-> a_min[2] - b_max[2]]
             ELSE [side |-> "Inside", depth |-> 0]
        y_is_shallower ==
            IF y.side = "Inside" THEN FALSE
            ELSE IF x.side = "Inside" THEN TRUE
            ELSE Abs(y.depth) < Abs(x.depth)
    IN  IF a_min[1] < b_max[1] /\ a_max[1] > b_min[1]
           /\ a_min[2] < b_max[2] /\ a_max[2] > b_min[2]
        THEN IF y_is_shallower THEN y.side ELSE x.side
        ELSE "None"

\* The side of b that a collided with, or "None".
collide(a_pos, a_size, b_pos, b_size) ==
    LET a_min == <<a_pos[1] - TruncDiv(a_size[1], 2), a_pos[2] - TruncDiv(a_size[2], 2)>>
        a_max == <<a_pos[1] + TruncDiv(a_size[1], 2), a_pos[2] + TruncDiv(a_size[2], 2)>>
        b_min == <<b_pos[1] - TruncDiv(b_size[1], 2), b_pos[2] - TruncDiv(b_size[2], 2)>>
        b_max == <<b_pos[1] + TruncDiv(b_size[1], 2), b_pos[2] + TruncDiv(b_size[2], 2)>>
        \* (side, depth); the depth of Inside is -infinity
        x == IF a_min[1] < b_min[1] /\ a_max[1] > b_min[1]
             THEN [side |-> "Left", depth |-> b_min[1] - a_max[1]]
             ELSE IF a_min[1] < b_max[1] /\ a_max[1] > b_max[1]
             THEN [side |-> "Right", depth |-> a_min[1] - b_max[1]]
             ELSE [side |-> "Inside", depth |-> 0]
        y == IF a_min[2] < b_min[2] /\ a_max[2] > b_min[2]
             THEN [side |-> "Bottom", depth |-> b_min[2] - a_max[2]]
             ELSE IF a_min[2] < b_max[2] /\ a_max[2] > b_max[2]
             THEN [side |-> "Top", depth |-> a_min[2] - b_max[2]]
             ELSE [side |-> "Inside", depth |-> 0]
        \* y_depth.abs() < x_depth.abs()
        y_is_shallower ==
            IF y.side = "Inside" THEN FALSE
            ELSE IF x.side = "Inside" THEN TRUE
            ELSE Abs(y.depth) < Abs(x.depth)
    IN  IF a_min[1] < b_max[1] /\ a_max[1] > b_min[1]
           /\ a_min[2] < b_max[2] /\ a_max[2] > b_min[2]
        THEN IF y_is_shallower THEN y.side ELSE x.side
        ELSE "None"

----------------------------------------------------------------------------
(* check_for_collisions *)

\* The ramp that starts over from the initial speed once the cap is reached.
ramp_starting_over(s, p) ==
    IF s < p.ball.max_speed THEN TruncDiv(s * 101, 100) ELSE p.ball.speed

\* The ramp with <= in the place of <: a speed at the cap is ramped too.
ramp_at_the_cap_too(s, p) == IF s <= p.ball.max_speed THEN TruncDiv(s * 101, 100) ELSE s

\* if speed.0 < parameters.ball.max_speed { speed.0 *= 1.01 }
ramp(s, p) == IF s < p.ball.max_speed THEN TruncDiv(s * 101, 100) ELSE s

RECURSIVE award_every_match(_, _, _, _)
\* The loop over the players' scoring walls without the break: every player
\* whose wall it is gets the point.
award_every_match(score, wall_hit, p, i) ==
    IF i > NumPlayers(p) THEN score
    ELSE award_every_match(
             IF wall_hit = p.players[i].wall_that_gives_points /\ i \in DOMAIN score
             THEN [score EXCEPT ![i] = @ + 1] ELSE score,
             wall_hit, p, i + 1)

RECURSIVE award_zero_sum(_, _, _, _)
\* The loop that takes the point from every other player.
award_zero_sum(score, wall_hit, p, i) ==
    IF i > NumPlayers(p) THEN score
    ELSE IF wall_hit = p.players[i].wall_that_gives_points /\ i \in DOMAIN score
         THEN [j \in DOMAIN score |-> IF j = i THEN score[j] + 1 ELSE score[j] - 1]
         ELSE award_zero_sum(score, wall_hit, p, i + 1)

RECURSIVE award_or_first_player(_, _, _, _)
\* The loop that gives the point to the first player when the wall hit is
\* nobody's scoring wall.
award_or_first_player(score, wall_hit, p, i) ==
    IF i > NumPlayers(p)
    THEN IF 1 \in DOMAIN score THEN [score EXCEPT ![1] = @ + 1] ELSE score
    ELSE IF wall_hit = p.players[i].wall_that_gives_points /\ i \in DOMAIN score
         THEN [score EXCEPT ![i] = @ + 1]
         ELSE award_or_first_player(score, wall_hit, p, i + 1)

RECURSIVE award(_, _, _, _)
\* The loop over the players' scoring walls for a hit Wall, from player i on:
\* the first player whose wall it is and who has a score entry gets the
\* point, and the loop breaks.
award(score, wall_hit, p, i) ==
    IF i > NumPlayers(p) THEN score
    ELSE IF wall_hit = p.players[i].wall_that_gives_points /\ i \in DOMAIN score
         THEN [score EXCEPT ![i] = @ + 1]
         ELSE award(score, wall_hit, p, i + 1)

\* The match with the conditions of Left and Right exchanged.
reflect_left_right_exchanged(collision, v) ==
    LET reflect_x == CASE collision = "Left" -> VelX(v) < 0
                       [] collision = "Right" -> VelX(v) > 0
                       [] OTHER -> FALSE
        reflect_y == CASE collision = "Top" -> VelY(v) < 0
                       [] collision = "Bottom" -> VelY(v) > 0
                       [] OTHER -> FALSE
        vx == IF reflect_x THEN NegateX(v) ELSE v
    IN  IF reflect_y THEN NegateY(vx) ELSE vx

\* The match without the test of the ball's direction: the classified side's
\* component is always negated.
reflect_whatever_the_direction(collision, v) ==
    LET vx == IF collision \in {"Left", "Right"} THEN NegateX(v) ELSE v
    IN  IF collision \in {"Top", "Bottom"} THEN NegateY(vx) ELSE vx

\* The match that turns the ball back on Inside.
reflect_back_out_of_inside(collision, v) ==
    LET reflect_x == CASE collision = "Left" -> VelX(v) > 0
                       [] collision = "Right" -> VelX(v) < 0
                       [] collision = "Inside" -> TRUE
                       [] OTHER -> FALSE
        reflect_y == CASE collision = "Top" -> VelY(v) < 0
                       [] collision = "Bottom" -> VelY(v) > 0
                       [] collision = "Inside" -> TRUE
                       [] OTHER -> FALSE
        vx == IF reflect_x THEN NegateX(v) ELSE v
    IN  IF reflect_y THEN NegateY(vx) ELSE vx

\* The reflection whose Top case looks at the x component.
reflect_top_when_moving_right(collision, v) ==
    LET reflect_x == CASE collision = "Left" -> VelX(v) > 0
                       [] collision = "Right" -> VelX(v) < 0
                       [] OTHER -> FALSE
        reflect_y == CASE collision = "Top" -> VelX(v) > 0
                       [] collision = "Bottom" -> VelY(v) > 0
                       [] OTHER -> FALSE
        vx == IF reflect_x THEN NegateX(v) ELSE v
    IN  IF reflect_y THEN NegateY(vx) ELSE vx

\* The match on the collision and the two reflections.
reflect(collision, v) ==
    LET reflect_x == CASE collision = "Left" -> VelX(v) > 0
                       [] collision = "Right" -> VelX(v) < 0
                       [] OTHER -> FALSE
        reflect_y == CASE collision = "Top" -> VelY(v) < 0
                       [] collision = "Bottom" -> VelY(v) > 0
                       [] OTHER -> FALSE
        vx == IF reflect_x THEN NegateX(v) ELSE v
    IN  IF reflect_y THEN NegateY(vx) ELSE vx

\* The test of the draw with <= in the place of <.
duplicates_on_equal(draw, p) == draw <= p.ball.probability_to_duplicate

\* The duplication that does not look at the draw.
duplicates_whatever_the_draw(draw, p) == TRUE

\* rand::random::<f32>() < parameters.ball.probability_to_duplicate
duplicates(draw, p) == draw < p.ball.probability_to_duplicate

\* The commands a system queues.
Despawn(entity) == [op |-> "despawn", entity |-> entity]

\* The spawn that ignores the configured starting position.
SpawnBall_at_the_origin(translation, velocity) ==
    [op |-> "spawn_ball", translation |-> <<0, 0>>, velocity |-> velocity]

SpawnBall(translation, velocity) ==
    [op |-> "spawn_ball", translation |-> translation, velocity |-> velocity]

SpawnAudio == [op |-> "spawn_audio"]

\* The body of `if let Some(collision) = collision` for ball i and collider c.
\* st carries what the loops mutate: speed, scores, the balls' velocities,
\* the events sent, the queued commands, the random draws not yet used and
\* the history of this tick.
on_collision(st, i, c, collision) ==
    LET p == parameters
        speed_1 == ramp(st.speed, p)
        scores_1 == IF c.wall # "None" THEN award(st.scores, c.wall, p, 1) ELSE st.scores
        commands_1 == IF c.brick THEN Append(st.commands, Despawn(c.entity)) ELSE st.commands
        velocity_0 == st.balls[i].velocity
        velocity_1 == reflect(collision, velocity_0)
        spawns == c.brick /\ duplicates(Head(st.draws), p)
        commands_2 == IF spawns
                      THEN Append(commands_1, SpawnBall(p.ball.starting_position, velocity_1))
                      ELSE commands_1
    IN  [speed |-> speed_1,
         scores |-> scores_1,
         balls |-> [st.balls EXCEPT ![i].velocity = velocity_1],
         events |-> st.events + 1,
         commands |-> commands_2,
         draws |-> IF c.brick THEN Tail(st.draws) ELSE st.draws,
         log |-> Append(st.log,
                    [ball |-> i, entity |-> c.entity, brick |-> c.brick, wall |-> c.wall,
                     collision |-> collision,
                     velocity_before |-> velocity_0, velocity_after |-> velocity_1,
                     speed_before |-> st.speed, speed_after |-> speed_1,
                     scores_before |-> st.scores, scores_after |-> scores_1,
                     spawned |-> spawns])]

\* collide(ball, collider) for ball i of the query
collision_of(i, c) ==
    collide(balls[i].translation, parameters.ball.size, c.translation, c.scale)

\* The colliders of the query that ball i overlaps, in iteration order: the
\* ones the inner loop's `if let Some(collision)` lets through.  The loops
\* move neither the ball nor a collider, so the test does not depend on what
\* the earlier iterations did.
overlapping(i, cs) == SelectSeq(cs, LAMBDA c : collision_of(i, c) # "None")

RECURSIVE for_colliders(_, _, _, _)
\* The inner loop: ball i against the colliders it overlaps, from index k on.
for_colliders(st, i, hit, k) ==
    IF k > Len(hit) THEN st
    ELSE for_colliders(on_collision(st, i, hit[k], collision_of(i, hit[k])), i, hit, k + 1)

RECURSIVE for_balls_despawning_at_once(_, _, _)
\* The outer loop over a world that loses a brick the moment it is hit: a
\* later ball is not tested against it.
for_balls_despawning_at_once(st, i, cs) ==
    IF i > Len(st.balls) THEN st
    ELSE LET hit == {st.log[k].entity : k \in {j \in DOMAIN st.log : st.log[j].brick}}
             live == SelectSeq(cs, LAMBDA c : c.entity \notin hit)
         IN  for_balls_despawning_at_once(
                 for_colliders(st, i, overlapping(i, live), 1), i + 1, cs)

RECURSIVE for_balls(_, _, _)
\* The outer loop: the balls from index i on.
for_balls(st, i, cs) ==
    IF i > Len(st.balls) THEN st
    ELSE for_balls(for_colliders(st, i, overlapping(i, cs), 1), i + 1, cs)

\* Number of times the loops draw a random number: once per overlap of a
\* ball with a brick.
NumDraws ==
    LET cs == Colliders
    IN  Cardinality({ic \in (DOMAIN balls) \X (DOMAIN cs) :
                        cs[ic[2]].brick /\ collision_of(ic[1], cs[ic[2]]) # "None"})

check_for_collisions(draws) ==
    /\ pc = "check_for_collisions"
    /\ LET st == for_balls([speed |-> speed, scores |-> scores, balls |-> balls,
                            events |-> collision_events, commands |-> commands,
                            draws |-> draws, log |-> <<>>], 1, Colliders)
       IN  /\ speed' = st.speed
           /\ scores' = st.scores
           /\ balls' = st.balls
           /\ collision_events' = st.events
           /\ commands' = st.commands
           /\ log' = st.log
    /\ pc' = "play_collision_sound"
    /\ UNCHANGED <<parameters, paddles, bricks, audio, ticks, keyboard_input, menu_vars>>

----------------------------------------------------------------------------
(* play_collision_sound *)

\* play_collision_sound without collision_events.clear()
play_collision_sound_without_clear ==
    /\ pc = "play_collision_sound"
    /\ IF collision_events # 0
       THEN commands' = Append(commands, SpawnAudio)
       ELSE UNCHANGED commands
    /\ pc' = "update_velocity"
    /\ UNCHANGED <<parameters, balls, paddles, bricks, scores, speed, collision_events,
                   audio, ticks, log, keyboard_input, menu_vars>>

play_collision_sound ==
    /\ pc = "play_collision_sound"
    /\ IF collision_events # 0
       THEN /\ collision_events' = 0
            /\ commands' = Append(commands, SpawnAudio)
       ELSE UNCHANGED <<collision_events, commands>>
    /\ pc' = "update_velocity"
    /\ UNCHANGED <<parameters, balls, paddles, bricks, scores, speed, audio, ticks, log,
                   keyboard_input, menu_vars>>

----------------------------------------------------------------------------
(* update_velocity *)

\* velocity.normalize() * speed.0
normalized_to(v, s) == normalize_times(v, s)

\* The normalizer that also ramps the speed it pins the balls to.
update_velocity_and_speed ==
    /\ pc = "update_velocity"
    /\ speed' = ramp(speed, parameters)
    /\ balls' = [i \in DOMAIN balls |->
                    [balls[i] EXCEPT !.velocity = normalized_to(@, speed')]]
    /\ pc' = "apply_deferred"
    /\ UNCHANGED <<parameters, paddles, bricks, scores, collision_events,
                   commands, audio, ticks, log, keyboard_input, menu_vars>>

update_velocity ==
    /\ pc = "update_velocity"
    /\ balls' = [i \in DOMAIN balls |->
                    [balls[i] EXCEPT !.velocity = normalized_to(@, speed)]]
    /\ pc' = "apply_deferred"
    /\ UNCHANGED <<parameters, paddles, bricks, scores, speed, collision_events,
                   commands, audio, ticks, log, keyboard_input, menu_vars>>

----------------------------------------------------------------------------
(* The flush of the Commands at the end of the FixedUpdate run *)

RECURSIVE apply_commands(_, _)
\* w is the world the commands change: the balls, the bricks and the audio
\* entities.  Despawning an entity that is gone changes nothing.
apply_commands(w, cs) ==
    IF cs = <<>> THEN w
    ELSE LET c == Head(cs)
             offset == NumPlayers(parameters) + Len(WallOrder)
             next ==
                 CASE c.op = "despawn" ->
                        [w EXCEPT !.bricks = SelectSeq(@, LAMBDA b : b + offset # c.entity)]
                   [] c.op = "spawn_ball" ->
                        [w EXCEPT !.balls = Append(@, [translation |-> c.translation,
                                                       velocity |-> c.velocity])]
                   [] c.op = "spawn_audio" ->
                        [w EXCEPT !.audio = @ + 1]
         IN  apply_commands(next, Tail(cs))

apply_deferred ==
    /\ pc = "apply_deferred"
    /\ LET w == apply_commands([balls |-> balls, bricks |-> bricks, audio |-> audio], commands)
       IN  /\ balls' = w.balls
           /\ bricks' = w.bricks
           /\ audio' = w.audio
    /\ commands' = <<>>
    /\ ticks' = ticks + 1
    /\ pc' = "apply_velocity"
    /\ UNCHANGED <<parameters, paddles, scores, speed, collision_events, log,
                   keyboard_input, menu_vars>>

----------------------------------------------------------------------------

Next ==
    \/ apply_velocity
    \/ \E pressed \in SUBSET Keys, matched \in QueryMatches : move_players(pressed, matched)
    \/ \E draws \in [1..NumDraws -> RandomDraws] : check_for_collisions(draws)
    \/ play_collision_sound
    \/ update_velocity
    \/ apply_deferred

Spec == Init /\ [][Next]_vars

----------------------------------------------------------------------------
(* The collision response on its own: one run of check_for_collisions in the
   arena of the default configuration, for a ball whose position and
   direction are drawn from the sets below. *)

\* x of the ball: next to the left wall, the paddles, the middle, the right
\* bricks and the right wall.
ScenarioXs == {as_f32(x) : x \in {-590, -585, -460, 0, 578, 585, 590}}

\* y of the ball: next to the down wall, the middle, next to the up wall.
ScenarioYs == {as_f32(y) : y \in {-290, -285, 0, 285, 290}} \cup {-Lit(280, 1)}

\* direction of the ball: along the axes and the diagonals.
ScenarioDirections ==
    {<<Lit(x, 0), Lit(y, 0)>> : x, y \in {-1, 0, 1}} \ {<<0, 0>>}

\* The default configuration with the ball at `position`, moving along
\* `direction` at 10.0.
ScenarioParameters(position, direction) ==
    [DefaultParameters EXCEPT !.ball.starting_position = position,
                              !.ball.starting_direction = direction,
                              !.ball.speed = Lit(10, 0)]

\* The same with a ball of 4 x 4, small enough to lie within a collider, and
\* the cap of the speed one ramp above the speed.
SmallBallParameters(position, direction) ==
    [ScenarioParameters(position, direction) EXCEPT
         !.ball.size = <<Lit(4, 0), Lit(4, 0)>>,
         !.ball.max_speed = Lit(10, 1)]

\* Centres of colliders: the paddles, the right wall, the up wall, the first
\* brick.
SmallBallPositions ==
    {paddle_start(DefaultParameters),
     <<as_f32(DefaultParameters.levels[1].x_right_wall), as_f32(0)>>,
     <<as_f32(0), as_f32(DefaultParameters.levels[1].y_up_wall)>>,
     BrickLayout(DefaultParameters)[1]}

InitScenario ==
    /\ \/ \E x \in ScenarioXs, y \in ScenarioYs, d \in ScenarioDirections :
              Setup(ScenarioParameters(<<x, y>>, d))
       \/ \E position \in SmallBallPositions, d \in ScenarioDirections :
              Setup(SmallBallParameters(position, d))
    /\ pc = "check_for_collisions"

NextScenario ==
    \E draws \in [1..NumDraws -> RandomDraws] : check_for_collisions(draws)

SpecScenario == InitScenario /\ [][NextScenario]_vars

----------------------------------------------------------------------------
(* The normalizer on its own: the first run of update_velocity after setup,
   for a ball whose configured speed and direction are drawn from the sets
   below. ball.speed and ball.starting_direction come from the toml file
   unchecked, so zero is among the values of both. *)

NormalizerSpeeds == {Lit(0, 0), Lit(1, 0), Lit(400, 0), Lit(2000, 0)}

NormalizerDirections == {<<x, y>> : x, y \in {-Lit(1, 0), Lit(0, 0), Lit(0, 5), Lit(1, 0)}}

NormalizerParameters(s, d) ==
    [DefaultParameters EXCEPT !.ball.speed = s, !.ball.starting_direction = d]

InitNormalizer ==
    /\ \E s \in NormalizerSpeeds, d \in NormalizerDirections :
           Setup(NormalizerParameters(s, d))
    /\ pc = "update_velocity"

NextNormalizer == update_velocity

SpecNormalizer == InitNormalizer /\ [][NextNormalizer]_vars

----------------------------------------------------------------------------
(* The paddle controller on its own: one run of move_players, for paddles
   at the two ends and the middle of their range and every set of held keys. *)

\* y of a paddle: the lower bound, the start and the upper bound.
PaddleYs(p) ==
    {Paddle_neg_bounds(p.paddle, p)[2], paddle_start(p)[2], Paddle_pos_bounds(p.paddle, p)[2]}

PaddleConfigurations == {SmallParameters("Right", "Left", Lit(0, 0)), DefaultParameters}

InitPaddles ==
    /\ \E p \in PaddleConfigurations, keys \in SUBSET Keys :
           \E ys \in [1..NumPlayers(p) -> PaddleYs(p)] :
               SetupWith(p, [i \in 1..NumPlayers(p) |-> <<paddle_start(p)[1], ys[i]>>], keys)
    /\ pc = "move_players"

\* move_players reads the keys of the Input resource.
NextPaddles == \E matched \in QueryMatches : move_players(keyboard_input, matched)

SpecPaddles == InitPaddles /\ [][NextPaddles]_vars

----------------------------------------------------------------------------
(* The simulation under a configuration that leaves less room between the
   bricks and the down wall than the ball is high, with the down wall as a
   scoring wall: a ball that arrives under a brick overlaps the wall and the
   brick in the same tick. *)

ContactParameters ==
    [SmallParameters("Down", "Left", Lit(0, 0)) EXCEPT
        !.misc.minimum_gap_between_bricks_and_horizontal_walls = 3,
        !.ball.starting_position = <<Lit(2, 0), Lit(5, 0)>>]

InitContact ==
    /\ Setup(ContactParameters)
    /\ pc = "apply_velocity"

SpecContact == InitContact /\ [][Next]_vars

----------------------------------------------------------------------------
(* The frames of the App: mod menu and the schedules main adds systems to.

   A frame runs PreUpdate (where bevy_ui writes the buttons' Interaction),
   StateTransition, the FixedUpdate loop (no, one or several ticks) and
   Update. In the first frame StateTransition first runs OnEnter of the
   initial state. Of the Update systems run_menu is modelled;
   menu::movement does nothing while no arrow key is held, which is the
   case here, and change_color and update_scoreboards write what the model
   does not hold (a colour, a text). setup_game spawns a sprite that no
   modelled system reads. *)

\* Number of FixedUpdate runs explored together with the frames.
MaxAppTicks == 3

Interactions == {"None", "Hovered", "Pressed"}

\* setup_menu on the menu's part w of the world: a root node (with the
\* button and its text as descendants) and MenuData { button_entity }
\* holding the id of that root node.
setup_menu(w) ==
    LET button_entity == Cardinality(w.nodes) + 1
    IN  [nodes |-> w.nodes \cup {button_entity}, data |-> {button_entity}]

\* commands.entity(menu_data.button_entity).despawn_recursive()
cleanup_menu(w) == [w EXCEPT !.nodes = @ \ w.data]

\* run_enter_schedule of the first frame: OnEnter(AppState::Menu), to which
\* main adds setup_menu twice (main.rs 22 and 30), so that it runs twice; a
\* new button's Interaction is None and counts as changed.
run_enter_schedule ==
    /\ pc = "run_enter_schedule"
    /\ LET w == setup_menu(setup_menu([nodes |-> menu_nodes, data |-> menu_data]))
       IN  /\ menu_nodes' = w.nodes
           /\ menu_data' = w.data
    /\ interaction' = {"None"}
    /\ pc' = "apply_state_transition"
    /\ UNCHANGED <<parameters, balls, paddles, bricks, scores, speed, collision_events,
                   commands, audio, ticks, log, keyboard_input, state, next_state>>

\* apply_state_transition: a queued state that differs from the current one
\* runs OnExit of the old state (cleanup_menu for Menu), replaces it and
\* runs OnEnter of the new one (setup_game for InGame).
apply_state_transition ==
    /\ pc = "apply_state_transition"
    /\ IF next_state # "None" /\ next_state # state
       THEN /\ LET w == IF state = "Menu"
                        THEN cleanup_menu([nodes |-> menu_nodes, data |-> menu_data])
                        ELSE [nodes |-> menu_nodes, data |-> menu_data]
               IN  /\ menu_nodes' = w.nodes
                   /\ menu_data' = w.data
            /\ state' = next_state
       ELSE UNCHANGED <<state, menu_nodes, menu_data>>
    /\ next_state' = "None"
    /\ pc' = "apply_velocity"
    /\ UNCHANGED <<parameters, balls, paddles, bricks, scores, speed, collision_events,
                   commands, audio, ticks, log, keyboard_input, interaction>>

\* The FixedUpdate loop has run the ticks of this frame.
end_fixed_update_loop ==
    /\ pc = "apply_velocity"
    /\ pc' = "Update"
    /\ UNCHANGED <<parameters, balls, paddles, bricks, scores, speed, collision_events,
                   commands, audio, ticks, log, keyboard_input, menu_vars>>

\* run_menu where a hovered button starts the game as a pressed one does.
run_menu_on_hover == IF interaction \cap {"Hovered", "Pressed"} # {} THEN "InGame" ELSE next_state

\* run_menu: the NextState after the loop over the buttons whose Interaction
\* changed; Pressed sets it, Hovered and None only recolour the button.
run_menu == IF "Pressed" \in interaction THEN "InGame" ELSE next_state

\* The Update schedule: run_menu under run_if(in_state(AppState::Menu)).
update ==
    /\ pc = "Update"
    /\ next_state' = IF state = "Menu" THEN run_menu ELSE next_state
    /\ pc' = "PreUpdate"
    /\ UNCHANGED <<parameters, balls, paddles, bricks, scores, speed, collision_events,
                   commands, audio, ticks, log, keyboard_input, state, menu_nodes,
                   menu_data, interaction>>

\* PreUpdate of the next frame: the pointer changes the Interaction of some
\* of the buttons in the world, or of none.
pre_update(changed) ==
    /\ pc = "PreUpdate"
    /\ Cardinality(changed) <= Cardinality(menu_nodes)
    /\ interaction' = changed
    /\ pc' = "apply_state_transition"
    /\ UNCHANGED <<parameters, balls, paddles, bricks, scores, speed, collision_events,
                   commands, audio, ticks, log, keyboard_input, state, next_state,
                   menu_nodes, menu_data>>

InitApp ==
    /\ Setup(SmallParameters("Right", "Left", Lit(0, 0)))
    /\ pc = "run_enter_schedule"

NextApp ==
    \/ run_enter_schedule
    \/ \E changed \in SUBSET Interactions : pre_update(changed)
    \/ apply_state_transition
    \/ ticks < MaxAppTicks /\ apply_velocity
    \/ \E pressed \in SUBSET Keys, matched \in QueryMatches : move_players(pressed, matched)
    \/ \E draws \in [1..NumDraws -> RandomDraws] : check_for_collisions(draws)
    \/ play_collision_sound
    \/ update_velocity
    \/ apply_deferred
    \/ end_fixed_update_loop
    \/ update

SpecApp == InitApp /\ [][NextApp]_vars

----------------------------------------------------------------------------
(* Properties *)

\* C1: GlobalBallSpeed (the Speed resource) never exceeds max_speed in any
\* reachable state: the ramp is clamped, so the speed stays pinned at
\* max_speed.
C1_SpeedNeverExceedsMaxSpeed == speed <= parameters.ball.max_speed

\* The state after a whole FixedUpdate run, its commands applied.
EndOfTick == pc = "apply_velocity" /\ ticks > 0

\* C2: at the end of every tick every ball that exists, the balls spawned by
\* duplication during that tick included, has a velocity whose magnitude is
\* the current GlobalBallSpeed.
C2_EveryBallMovesAtTheGlobalSpeed ==
    EndOfTick => \A i \in DOMAIN balls : balls[i].velocity.mag = speed

\* C3 as the specification states it: a ball moving right (vx > 0) that
\* overlaps a collider classified Right leaves the response with vx < 0, and
\* one classified Left leaves it with vx unchanged.
C3_AsStated ==
    \A k \in DOMAIN log :
        LET e == log[k]
        IN  VelX(e.velocity_before) > 0 =>
                /\ e.collision = "Right" => VelX(e.velocity_after) < 0
                /\ e.collision = "Left" => VelX(e.velocity_after) = VelX(e.velocity_before)

\* C3, as the code has it: a ball moving right (vx > 0) that overlaps a
\* collider classified Left leaves the response with vx negated (vx < 0), and
\* one classified Right leaves it with vx unchanged.
C3_MovingRight ==
    \A k \in DOMAIN log :
        LET e == log[k]
        IN  VelX(e.velocity_before) > 0 =>
                /\ e.collision = "Left" => VelX(e.velocity_after) = -VelX(e.velocity_before)
                /\ e.collision = "Right" => VelX(e.velocity_after) = VelX(e.velocity_before)

\* A ball moving right met a collider classified Left and left with vx < 0.
C3_Witness ==
    \E k \in DOMAIN log :
        /\ log[k].collision = "Left"
        /\ VelX(log[k].velocity_before) > 0
        /\ VelX(log[k].velocity_after) < 0

\* C4: for one processed overlap the response negates exactly the component
\* the classified side selects, and only when the ball moves into that side:
\* Left negates vx iff vx > 0, Right iff vx < 0, Top negates vy iff vy < 0,
\* Bottom iff vy > 0; the other component is unchanged, and a component equal
\* to 0 is never changed.
C4_ReflectionTable ==
    \A k \in DOMAIN log :
        LET e == log[k]
            vx == VelX(e.velocity_before)
            vy == VelY(e.velocity_before)
            ax == VelX(e.velocity_after)
            ay == VelY(e.velocity_after)
        IN  /\ e.collision = "Left" => ax = (IF vx > 0 THEN -vx ELSE vx) /\ ay = vy
            /\ e.collision = "Right" => ax = (IF vx < 0 THEN -vx ELSE vx) /\ ay = vy
            /\ e.collision = "Top" => ay = (IF vy < 0 THEN -vy ELSE vy) /\ ax = vx
            /\ e.collision = "Bottom" => ay = (IF vy > 0 THEN -vy ELSE vy) /\ ax = vx
            /\ e.collision = "Inside" => ax = vx /\ ay = vy
            /\ e.velocity_after.mag = e.velocity_before.mag

\* One run processed a reflecting overlap (Bottom, moving up) of a ball whose
\* other component is 0, and a non-reflecting one.
C4_Witness ==
    /\ \E k \in DOMAIN log :
           /\ log[k].collision = "Bottom"
           /\ VelY(log[k].velocity_before) > 0
           /\ VelX(log[k].velocity_before) = 0
           /\ VelY(log[k].velocity_after) < 0
    /\ \E k \in DOMAIN log :
           /\ log[k].collision = "Left"
           /\ VelX(log[k].velocity_before) = 0

\* The scenario's ball: centred at (590, 0), 30 x 30, vx = +10, vy = 0.
ScenarioBall ==
    /\ parameters.ball.starting_position = <<Lit(590, 0), Lit(0, 0)>>
    /\ parameters.ball.starting_direction = <<Lit(1, 0), Lit(0, 0)>>
    /\ parameters.ball.size = <<Lit(30, 0), Lit(30, 0)>>
    /\ balls[1].translation = parameters.ball.starting_position

\* The wall at x = 600 with half-thickness 5
RightWallEntity == NumPlayers(parameters) + 2

\* The run of check_for_collisions on the scenario's ball is over.
ScenarioRan == ScenarioBall /\ pc = "play_collision_sound"

\* C5 as the specification states it: the scenario's ball, tested against the
\* wall at x = 600, is classified Right and ends the response with vx = -10.
C5_AsStated ==
    ScenarioRan =>
        \E k \in DOMAIN log :
            /\ log[k].entity = RightWallEntity
            /\ log[k].collision = "Right"
            /\ VelX(balls[1].velocity) = -Lit(10, 0)

\* C5, as the code has it: the scenario's ball overlaps the wall at x = 600
\* and nothing else, the overlap is classified Left (the side of the wall the
\* ball struck), and the response ends with vx = -10.
C5_Scenario ==
    ScenarioRan =>
        /\ Len(log) = 1
        /\ log[1].entity = RightWallEntity
        /\ log[1].wall = "Right"
        /\ VelX(log[1].velocity_before) = Lit(10, 0)
        /\ log[1].collision = "Left"
        /\ VelX(balls[1].velocity) = -Lit(10, 0)
        /\ VelY(balls[1].velocity) = 0

\* The scenario's ball has been tested against the wall at x = 600.
C5_Witness ==
    /\ ScenarioRan
    /\ wall(parameters).x_right_wall = 600
    /\ wall(parameters).thickness = 10
    /\ \E k \in DOMAIN log : log[k].entity = RightWallEntity

\* The players whose scoring wall a wall is.
ScoringPlayers(wall_hit) ==
    {i \in 1..NumPlayers(parameters) :
        parameters.players[i].wall_that_gives_points = wall_hit}

\* C6 as the specification states it: one processed collision with the wall
\* that is player i's scoring wall increases Score[i] by exactly 1 and leaves
\* every other player's score unchanged, for every such player i, also when
\* several players have the same scoring wall.
C6_AsStated ==
    \A k \in DOMAIN log :
        \A i \in ScoringPlayers(log[k].wall) :
            /\ log[k].scores_after[i] = log[k].scores_before[i] + 1
            /\ \A j \in DOMAIN scores :
                   j # i => log[k].scores_after[j] = log[k].scores_before[j]

\* C6, as the code has it: one processed collision with a wall increases by
\* exactly 1 the score of the first player (the lowest index) whose scoring
\* wall it is and leaves every other score unchanged, the scores of the later
\* players with the same scoring wall included; a collision with a wall that
\* is nobody's, with a paddle or with a brick changes no score.
C6_FirstPlayerOfTheWallScores ==
    \A k \in DOMAIN log :
        LET e == log[k]
            S == ScoringPlayers(e.wall)
        IN  \A j \in DOMAIN scores :
                e.scores_after[j] =
                    e.scores_before[j]
                        + (IF j \in S /\ (\A i \in S : j <= i) THEN 1 ELSE 0)

\* A ball hit a wall that is the scoring wall of two players.
C6_Witness ==
    \E k \in DOMAIN log :
        /\ Cardinality(ScoringPlayers(log[k].wall)) = 2
        /\ log[k].scores_after # log[k].scores_before

\* v lies component-wise in [lo, hi].
Within(v, lo, hi) == \A c \in 1..2 : lo[c] <= v[c] /\ v[c] <= hi[c]

C8_NoSecondRemovalRequest ==
    \A j, k \in DOMAIN commands :
        (j < k /\ commands[j].op = "despawn" /\ commands[k].op = "despawn")
            => commands[j].entity # commands[k].entity

\* The balls the commands queued so far spawn.
NumSpawnRequests == Cardinality({k \in DOMAIN commands : commands[k].op = "spawn_ball"})

\* The overlaps with a brick processed in this tick.
NumBrickCollisions == Cardinality({k \in DOMAIN log : log[k].brick})

\* check_for_collisions has run in this tick and its commands are queued.
AfterCollisions == pc \in {"play_collision_sound", "update_velocity", "apply_deferred"}

\* C9: with probability_to_duplicate 1.0 every processed brick collision
\* spawns exactly one ball, with 0.0 none does, and a collision with a wall or
\* a paddle never spawns one.
C9_Duplication ==
    /\ AfterCollisions =>
           /\ parameters.ball.probability_to_duplicate = Lit(1, 0)
                  => NumSpawnRequests = NumBrickCollisions
           /\ parameters.ball.probability_to_duplicate = Lit(0, 0)
                  => NumSpawnRequests = 0
           /\ NumSpawnRequests <= NumBrickCollisions
    /\ \A k \in DOMAIN log :
           /\ ~log[k].brick => ~log[k].spawned
           /\ (log[k].brick /\ parameters.ball.probability_to_duplicate = Lit(1, 0))
                  => log[k].spawned
           /\ parameters.ball.probability_to_duplicate = Lit(0, 0) => ~log[k].spawned

\* With probability 1.0 one tick processed two brick collisions and a paddle
\* collision, and two balls are to be spawned.
C9_Witness ==
    /\ AfterCollisions
    /\ parameters.ball.probability_to_duplicate = Lit(1, 0)
    /\ NumBrickCollisions >= 2
    /\ NumSpawnRequests = NumBrickCollisions
    /\ \E k \in DOMAIN log : ~log[k].brick

\* The sounds the commands queued so far play.
NumSoundRequests == Cardinality({k \in DOMAIN commands : commands[k].op = "spawn_audio"})

\* C10: in a tick with at least one registered collision exactly one sound is
\* triggered however many collisions there were, in a tick without a
\* collision none is, and the collision events are cleared, so that a later
\* tick without a collision triggers no sound.
C10_OneSoundPerTickWithCollisions ==
    /\ pc \in {"update_velocity", "apply_deferred"} =>
           /\ NumSoundRequests = (IF log # <<>> THEN 1 ELSE 0)
           /\ collision_events = 0
    /\ pc \in {"apply_velocity", "move_players", "check_for_collisions"} =>
           /\ NumSoundRequests = 0
           /\ collision_events = 0

\* A tick with several collisions triggered one sound, after an earlier tick
\* with a sound.
C10_Witness ==
    /\ pc = "apply_deferred"
    /\ Len(log) >= 2
    /\ NumSoundRequests = 1
    /\ audio >= 1

\* The system that runs after each system of the chain; the commands are
\* applied after the last one.
ChainSuccessor ==
    [apply_velocity |-> "move_players",
     move_players |-> "check_for_collisions",
     check_for_collisions |-> "play_collision_sound",
     play_collision_sound |-> "update_velocity",
     update_velocity |-> "apply_deferred",
     apply_deferred |-> "apply_velocity"]

\* C11: within every tick the five steps run exactly once each, in the order
\* apply_velocity, move_players, check_for_collisions, play_collision_sound,
\* update_velocity, and no step of one tick interleaves with a step of
\* another: every step hands over to the next of the chain, and the count of
\* ticks changes only after the last, by one.
C11_StrictOrder ==
    [][/\ pc \in DOMAIN ChainSuccessor
       /\ pc' = ChainSuccessor[pc]
       /\ IF pc = "apply_deferred" THEN ticks' = ticks + 1 ELSE ticks' = ticks]_vars

\* The third tick has run its five steps.
C11_Witness == ticks = 2 /\ pc = "apply_deferred"

\* C12: GlobalBallSpeed never decreases from one state to the next and is
\* never below the configured initial ball speed.
C12_SpeedNeverDecreases ==
    /\ [](speed >= parameters.ball.speed)
    /\ [][speed' >= speed]_vars

\* The speed has been ramped up to or past the cap.
C12_Witness ==
    /\ speed > parameters.ball.speed
    /\ speed >= parameters.ball.max_speed

\* C13: every player's score is non-negative and never decreases, and the
\* scores keep exactly one entry per configured player.
C13_ScoresNeverDecrease ==
    /\ [](/\ DOMAIN scores = 1..NumPlayers(parameters)
          /\ \A i \in DOMAIN scores : scores[i] >= 0)
    /\ [][/\ DOMAIN scores' = DOMAIN scores
          /\ \A i \in DOMAIN scores : scores'[i] >= scores[i]]_vars

\* A player has scored.
C13_Witness == \E i \in DOMAIN scores : scores[i] >= 1

\* The ball bounds widened by the padding lie inside the arena widened by
\* the padding.
BallBoundsInsideArena ==
    LET p == parameters
        w == wall(p)
        neg == Ball_neg_bounds(p.ball, p)
        pos == Ball_pos_bounds(p.ball, p)
    IN  /\ as_f32(w.x_left_wall) - p.ball.padding_for_bounds <= neg[1]
        /\ as_f32(w.y_down_wall) - p.ball.padding_for_bounds <= neg[2]
        /\ pos[1] <= as_f32(w.x_right_wall) + p.ball.padding_for_bounds
        /\ pos[2] <= as_f32(w.y_up_wall) + p.ball.padding_for_bounds

\* Every ball there is lies within the ball bounds.
BallsWithinBounds ==
    \A i \in DOMAIN balls :
        Within(balls[i].translation,
               Ball_neg_bounds(parameters.ball, parameters),
               Ball_pos_bounds(parameters.ball, parameters))

\* C14: at the end of every tick, whatever collisions occurred in it, every
\* ball that was integrated in that tick lies component-wise within
\* [neg_bounds, pos_bounds], which lie inside [arena_min - padding,
\* arena_max + padding]: from the integration to the end of the run the balls
\* are within the bounds, and the end of the run moves none of them (it only
\* adds the balls spawned in the tick).
C14_BallWithinBounds ==
    /\ [](BallBoundsInsideArena /\ (pc # "apply_velocity" => BallsWithinBounds))
    /\ [][pc # "apply_velocity" =>
              /\ Len(balls') >= Len(balls)
              /\ \A i \in DOMAIN balls : balls'[i].translation = balls[i].translation]_vars

\* A ball that hit something in this tick ends it on the edge of the bounds,
\* where the clamp put it.
C14_Witness ==
    /\ pc = "apply_deferred"
    /\ \E k \in DOMAIN log :
           balls[log[k].ball].translation[2] = Ball_neg_bounds(parameters.ball, parameters)[2]

Ramped(s) == IF s < parameters.ball.max_speed THEN (s * 101) \div 100 ELSE s

RECURSIVE RampedTimes(_, _)
\* s after k processed overlaps
RampedTimes(s, k) == IF k = 0 THEN s ELSE Ramped(RampedTimes(s, k - 1))

\* C16: each processed overlap, whatever the collider's role and the
\* classified side, multiplies GlobalBallSpeed by 1.01 exactly once when the
\* speed is below max_speed (400 becomes 404) and leaves it unchanged when it
\* is at or above max_speed, so that the k overlaps processed in one run of
\* check_for_collisions ramp the speed k times.
C16_RampPerOverlap ==
    /\ ramp(Lit(400, 0), DefaultParameters) = Lit(404, 0)
    /\ [][pc = "check_for_collisions" =>
              /\ speed' = RampedTimes(speed, Len(log'))
              /\ \A k \in DOMAIN log' :
                     /\ log'[k].speed_before = RampedTimes(speed, k - 1)
                     /\ log'[k].speed_after = Ramped(log'[k].speed_before)]_vars

\* One run processed two overlaps classified Inside: the first ramped the
\* speed to the cap, the second found it at the cap.
C16_Witness ==
    /\ Len(log) = 2
    /\ \A k \in DOMAIN log : log[k].collision = "Inside"
    /\ log[1].speed_after > log[1].speed_before
    /\ log[2].speed_before = parameters.ball.max_speed
    /\ speed = parameters.ball.max_speed

\* The scores after one point for the first player whose scoring wall
\* wall_hit is, if there is one.
ScoresAfterHit(before, wall_hit) ==
    [j \in DOMAIN before |->
        before[j] + (IF j \in ScoringPlayers(wall_hit)
                        /\ (\A i \in ScoringPlayers(wall_hit) : j <= i)
                     THEN 1 ELSE 0)]

\* C19: an overlap classified Inside changes neither velocity component of
\* the ball, but the collision still registers: the speed ramp is applied, a
\* collision event is emitted, a scoring wall awards its point and a brick is
\* despawned (and may duplicate the ball).
C19_InsideStillRegisters ==
    /\ pc = "play_collision_sound" => collision_events = Len(log)
    /\ \A k \in DOMAIN log :
           log[k].collision = "Inside" =>
               /\ log[k].velocity_after = log[k].velocity_before
               /\ log[k].speed_after = Ramped(log[k].speed_before)
               /\ log[k].scores_after = ScoresAfterHit(log[k].scores_before, log[k].wall)
               /\ log[k].brick =>
                      \E c \in DOMAIN commands : commands[c] = Despawn(log[k].entity)
               /\ log[k].spawned =>
                      \E c \in DOMAIN commands :
                          commands[c] = SpawnBall(parameters.ball.starting_position,
                                                  log[k].velocity_before)

\* A ball within a brick: the overlap is classified Inside, the speed is
\* ramped, the brick is despawned and the ball duplicated.
C19_Witness ==
    \E k \in DOMAIN log :
        /\ log[k].collision = "Inside"
        /\ log[k].brick
        /\ log[k].spawned
        /\ log[k].speed_after > log[k].speed_before
        /\ collision_events >= 1

\* A ball within the right wall, a scoring wall: the overlap is classified
\* Inside and the point is awarded.
InsideScoringWall ==
    \E k \in DOMAIN log :
        /\ log[k].collision = "Inside"
        /\ log[k].wall = "Right"
        /\ log[k].scores_after # log[k].scores_before

\* The overlaps of this tick's history in which ball b had component c of its
\* velocity negated.
Negations(b, c) ==
    {k \in DOMAIN log :
        /\ log[k].ball = b
        /\ log[k].velocity_after.dir[c] = -log[k].velocity_before.dir[c]
        /\ log[k].velocity_before.dir[c] # 0}

\* C17: within one tick a ball's velocity is negated at most once on the x
\* axis and at most once on the y axis, however many colliders it overlaps.
C17_AtMostOnceAnAxis ==
    \A b \in DOMAIN balls, c \in 1..2 : Cardinality(Negations(b, c)) <= 1

\* The sign of component c of the velocity v.
SignOf(v, c) ==
    IF v.mag = 0 \/ v.dir[c] = 0 THEN 0 ELSE IF (v.dir[c] > 0) = (v.mag > 0) THEN 1 ELSE -1

\* C18: the normalizer leaves the zero vector as it is, and gives a non-zero
\* velocity the magnitude GlobalBallSpeed while keeping the sign of each of
\* its components.
C18_ZeroStaysZero ==
    [][pc = "update_velocity" =>
        \A i \in DOMAIN balls :
            LET before == balls[i].velocity
                after == balls'[i].velocity
            IN  /\ is_zero(before) => is_zero(after)
                /\ (~is_zero(before) /\ ~is_nan(before)) =>
                       /\ ~is_nan(after)
                       /\ after.mag = speed
                       /\ speed > 0 =>
                              \A c \in 1..2 : SignOf(after, c) = SignOf(before, c)]_vars

\* The spawn requests among the commands queued so far, in queue order.
SpawnRequests == SelectSeq(commands, LAMBDA c : c.op = "spawn_ball")

\* The overlaps of this tick that duplicated the ball, in processing order.
Duplications == SelectSeq(log, LAMBDA e : e.spawned)

\* C20: a ball spawned by duplication is placed at the configured starting
\* position of the ball, and its velocity is the colliding ball's velocity
\* after the reflection of that same brick collision: so for the request
\* queued by check_for_collisions, and so for the ball in the world after the
\* commands are applied.
C20_SpawnedAtStartWithReflectedVelocity ==
    /\ AfterCollisions =>
           /\ Len(SpawnRequests) = Len(Duplications)
           /\ \A j \in DOMAIN SpawnRequests :
                  /\ SpawnRequests[j].translation = parameters.ball.starting_position
                  /\ SpawnRequests[j].velocity = Duplications[j].velocity_after
    /\ EndOfTick =>
           /\ Len(balls) >= Len(Duplications)
           /\ \A j \in DOMAIN Duplications :
                  LET new == balls[Len(balls) - Len(Duplications) + j]
                  IN  /\ new.translation = parameters.ball.starting_position
                      /\ new.velocity = Duplications[j].velocity_after

\* A tick has ended in which a ball away from the starting position was
\* reflected by a brick and duplicated.
C20_Witness ==
    /\ EndOfTick
    /\ \E j \in DOMAIN Duplications :
           /\ Duplications[j].velocity_after # Duplications[j].velocity_before
           /\ balls[Duplications[j].ball].translation # parameters.ball.starting_position
           /\ balls[Len(balls) - Len(Duplications) + j].translation
                  # balls[Duplications[j].ball].translation

\* The sum of the directions of the player's Move controls that are held.
SumOfPressed(player, keys) ==
    LET held == {k \in DOMAIN player.controls : player.controls[k].key \in keys}
        up == Cardinality({k \in held : player.controls[k].effect.move = up_direction})
        down == Cardinality({k \in held : player.controls[k].effect.move = down_direction})
    IN  <<0, up - down>>

\* normalize(sum) * paddle speed * delta time, zero for the zero sum.
Displacement(player, keys) ==
    LET sum == SumOfPressed(player, keys)
    IN  IF sum = <<0, 0>> THEN <<0, 0>>
        ELSE <<TimesDelta(UnitTimes(sum, 1, player.paddle.speed)),
               TimesDelta(UnitTimes(sum, 2, player.paddle.speed))>>

\* C21: the paddle controller moves each paddle by normalize(sum of the held
\* Move directions) * paddle speed * delta time, clamped to the movement
\* bounds; with no control held, or with held controls that sum to zero, the
\* paddle stays where it is.
C21_PaddleDisplacement ==
    [][pc = "move_players" =>
        \A i \in DOMAIN paddles :
            LET player == parameters.players[i]
                d == Displacement(player, keyboard_input)
            IN  /\ paddles'[i] = clamp(<<paddles[i][1] + d[1], paddles[i][2] + d[2]>>,
                                       Paddle_neg_bounds(player.paddle, parameters),
                                       Paddle_pos_bounds(player.paddle, parameters))
                /\ d = <<0, 0>> => paddles'[i] = paddles[i]]_vars

\* C22: no ball is ever removed, and the number of balls grows only by the
\* balls that the brick collisions of the tick duplicated: the balls there
\* were stay as they are at the front of the query, the flush of the commands
\* appends one ball for each duplication, and with probability 0.0, where no
\* draw passes, the number never changes.
C22_BallsOnlyAdded ==
    [][/\ Len(balls') >= Len(balls)
       /\ \A i \in DOMAIN balls : pc = "apply_deferred" => balls'[i] = balls[i]
       /\ Len(balls') > Len(balls) =>
              /\ pc = "apply_deferred"
              /\ Len(balls') = Len(balls) + Len(Duplications)
              /\ \A j \in DOMAIN Duplications : Duplications[j].brick
              /\ parameters.ball.probability_to_duplicate > Lit(0, 0)]_vars

\* At least two balls have been added, one of them in the tick that just ended.
C22_Witness ==
    /\ EndOfTick
    /\ Len(balls) >= 3
    /\ Len(Duplications) >= 1

\* C23: GlobalBallSpeed and the scores are written by check_for_collisions
\* alone: every other step of the tick leaves both as they are; and
\* check_for_collisions moves nothing: the balls, the paddles and the set of
\* bricks in the world keep their positions over it.
C23_SpeedAndScoresOwnedByCollisions ==
    [][/\ pc # "check_for_collisions" => (speed' = speed /\ scores' = scores)
       /\ pc = "check_for_collisions" =>
              /\ paddles' = paddles
              /\ bricks' = bricks
              /\ Len(balls') = Len(balls)
              /\ \A i \in DOMAIN balls : balls'[i].translation = balls[i].translation]_vars

\* check_for_collisions has just awarded a point and turned the ball round,
\* and it has ramped the speed in this tick or an earlier one.
C23_Witness ==
    /\ pc = "play_collision_sound"
    /\ speed > parameters.ball.speed
    /\ \E k \in DOMAIN log :
           /\ log[k].scores_after # log[k].scores_before
           /\ log[k].velocity_after # log[k].velocity_before

\* The bricks removed from the world since setup.
NumBricksRemoved == Len(BrickLayout(parameters)) - Len(bricks)

\* C24: the number of balls never exceeds 1 plus the number of bricks
\* removed since setup.
C24_OneBallPerRemovedBrick == Len(balls) <= 1 + NumBricksRemoved

\* C25: a ball that overlapped a scoring wall in the tick before and
\* overlaps the same wall in this tick is in the same contact, and this tick
\* awards no further point for it.
C25_OnePointPerContact ==
    [][pc = "check_for_collisions" =>
        \A k \in DOMAIN log, j \in DOMAIN log' :
            (/\ log'[j].ball = log[k].ball
             /\ log'[j].entity = log[k].entity
             /\ ScoringPlayers(log[k].wall) # {})
                => log'[j].scores_after = log'[j].scores_before]_vars

\* The overlaps of ball b in the last collision pass.
OverlapsOf(b) == {k \in DOMAIN log : log[k].ball = b}

First(S) == CHOOSE k \in S : \A j \in S : k <= j

Last(S) == CHOOSE k \in S : \A j \in S : k >= j

RECURSIVE Outcomes(_, _)
\* The velocities the reflections of the overlaps S leave, one for each order
\* in which S can be visited, starting from the velocity v.
Outcomes(v, S) ==
    IF S = {} THEN {v}
    ELSE UNION {Outcomes(reflect(log[k].collision, v), S \ {k}) : k \in S}

\* Two of the overlaps of ball b are classified as opposite sides.
OppositeSides(b) ==
    \E j, k \in OverlapsOf(b) :
        {log[j].collision, log[k].collision} \in {{"Left", "Right"}, {"Top", "Bottom"}}

\* C26 as stated: whatever the order in which the colliders a ball overlaps
\* are visited, the ball has the same velocity after the collision pass.
C26_AsStated ==
    \A b \in DOMAIN balls :
        OverlapsOf(b) # {} =>
            Outcomes(log[First(OverlapsOf(b))].velocity_before, OverlapsOf(b))
                = {log[Last(OverlapsOf(b))].velocity_after}

\* C26: the velocity of a ball after the collision pass is the same for
\* every order of the colliders it overlaps when no two of them are
\* classified as opposite sides (Left and Right, or Top and Bottom).
C26_OrderFreeWithoutOppositeSides ==
    \A b \in DOMAIN balls :
        (OverlapsOf(b) # {} /\ ~OppositeSides(b)) =>
            Outcomes(log[First(OverlapsOf(b))].velocity_before, OverlapsOf(b))
                = {log[Last(OverlapsOf(b))].velocity_after}

\* A ball overlapped a collider on its x axis and one on its y axis in the
\* same pass, no two on opposite sides, and both components were negated.
C26_Witness ==
    \E b \in DOMAIN balls :
        /\ ~OppositeSides(b)
        /\ \E j, k \in OverlapsOf(b) :
               /\ log[j].collision \in {"Left", "Right"}
               /\ log[k].collision \in {"Top", "Bottom"}
               /\ log[j].velocity_after # log[j].velocity_before
               /\ log[k].velocity_after # log[k].velocity_before

\* The pairs of a ball and a collider of the world that overlap.
OverlappingPairs ==
    LET cs == Colliders
    IN  {<<ic[1], cs[ic[2]].entity>> :
            ic \in {jc \in (DOMAIN balls) \X (DOMAIN cs) :
                        collision_of(jc[1], cs[jc[2]]) # "None"}}

\* C27: the removals and spawns requested in the collision pass take effect
\* after it: the pass tests every ball of the world it starts on against
\* every collider of that world, a brick already hit by an earlier ball
\* included, and tests no other ball; the bricks and the number of balls
\* change only when the commands are applied at the end of the tick.
C27_CommandsApplyAfterThePass ==
    [][/\ pc = "check_for_collisions" =>
              LET pairs == OverlappingPairs
              IN  /\ {<<log'[k].ball, log'[k].entity>> : k \in DOMAIN log'} = pairs
                  /\ Len(log') = Cardinality(pairs)
       /\ pc # "apply_deferred" => (bricks' = bricks /\ Len(balls') = Len(balls))]_vars

\* A pass in which two balls hit the same brick, the earlier of the two
\* hits spawning a ball.
C27_Witness ==
    /\ pc = "play_collision_sound"
    /\ \E j, k \in DOMAIN log :
           /\ j < k
           /\ log[j].brick
           /\ log[j].spawned
           /\ log[k].entity = log[j].entity
           /\ log[k].ball # log[j].ball

\* C28: once the application has left the Menu state no UI node that
\* setup_menu spawned is left in the world.
C28_NoMenuNodeAfterMenu == state = "InGame" => menu_nodes = {}

\* C29: the application state starts as Menu; it changes only from Menu to
\* InGame, which is asked for only by run_menu on a button whose Interaction
\* changed to Pressed; once InGame it is never Menu again.
C29_MenuThenInGame ==
    /\ [](pc = "run_enter_schedule" => state = "Menu")
    /\ [][/\ state' # state =>
                 (state = "Menu" /\ state' = "InGame" /\ next_state = "InGame")
          /\ (next_state' # next_state /\ next_state' # "None") =>
                 /\ next_state' = "InGame"
                 /\ pc = "Update"
                 /\ state = "Menu"
                 /\ "Pressed" \in interaction
          /\ state = "InGame" => state' = "InGame"]_vars

\* The game has been started from the menu and ticks have run since.
C29_Witness ==
    /\ state = "InGame"
    /\ pc = "Update"
    /\ ticks = MaxAppTicks

\* C30: while the application is in the Menu state no step of the
\* simulation moves a ball, changes a score or ramps GlobalBallSpeed.
C30_IdleInMenu ==
    [][state = "Menu" => (balls' = balls /\ scores' = scores /\ speed' = speed)]_vars

====
